---- MODULE Spec2Model ----
(***************************************************************************)
(* xsukax-pygit: one invocation of `xsukax-pygit clone <source> [dest]`.   *)
(* The state is the command's position (pc), its locals, the destination   *)
(* and source locations of the filesystem, the scratch directory of        *)
(* extract_zip_to and the log of the network requests issued.              *)
(*                                                                         *)
(* Strings the code inspects character by character (the URL's netloc and  *)
(* path segments) are sequences of one-character strings.  A filesystem    *)
(* object is a record [type, tree]; a tree is a set of entries             *)
(* [path, kind, data], path being the sequence of names below the object.  *)
(* Source and destination are distinct filesystem locations.               *)
(* dest0, destBefore, extracted, meta, fetched, destChecked and            *)
(* netRequests record what happened: the destination before the command    *)
(* and before extract_zip_to, whether extractall completed, the answers of *)
(* the network, whether the destination was inspected, the requests sent.  *)
(***************************************************************************)
EXTENDS Integers, Sequences, FiniteSets, TLC

VARIABLES pc, source, destArg, dest, dest0, destFS, srcFS, owner, repo,
          branch, resolved, fallback, meta, fetched, data, scratch, root,
          reported, result, destChecked, netRequests, destBefore, extracted

vars == <<pc, source, destArg, dest, dest0, destFS, srcFS, owner, repo,
          branch, resolved, fallback, meta, fetched, data, scratch, root,
          reported, result, destChecked, netRequests, destBefore, extracted>>

(***************************************************************************)
(* Bounds of the model.                                                    *)
(***************************************************************************)
MaxEntries == 2
MaxSrcEntries == 1

(***************************************************************************)
(* Character strings.                                                      *)
(***************************************************************************)
GITHUB_COM == <<"g","i","t","h","u","b",".","c","o","m">>
DOT_GIT == <<".","g","i","t">>

\* str.lower() on the letters that occur in the model's inputs
LowerChar(c) ==
    CASE c = "G" -> "g"
      [] c = "H" -> "h"
      [] c = "C" -> "c"
      [] c = "O" -> "o"
      [] c = "M" -> "m"
      [] OTHER -> c

Lower(s) == [i \in 1..Len(s) |-> LowerChar(s[i])]

\* Python's `needle in haystack` on strings
Contains(haystack, needle) ==
    \E i \in 0..(Len(haystack) - Len(needle)) :
        \A j \in 1..Len(needle) : haystack[i + j] = needle[j]

\* str.endswith
EndsWith(s, suffix) ==
    /\ Len(s) >= Len(suffix)
    /\ \A j \in 1..Len(suffix) : s[Len(s) - Len(suffix) + j] = suffix[j]

\* [p for p in path.strip("/").split("/") if p]
RECURSIVE NonEmptyParts(_)
NonEmptyParts(segs) ==
    IF segs = <<>> THEN <<>>
    ELSE IF Head(segs) = <<>> THEN NonEmptyParts(Tail(segs))
         ELSE <<Head(segs)>> \o NonEmptyParts(Tail(segs))

\* is_url: the scheme is http or https
is_url(s) == s.scheme \in {"http", "https"}

\* github_owner_repo, line 64: the host test
HostAccepted(netloc) == Contains(Lower(netloc), GITHUB_COM)

\* github_owner_repo, lines 72-73: strip a trailing ".git"
StripGit(name) ==
    IF EndsWith(name, DOT_GIT) THEN SubSeq(name, 1, Len(name) - 4) ELSE name

\* github_owner_repo: the error raised, or "none"
OwnerRepoError(s) ==
    IF ~HostAccepted(s.netloc) THEN "UnsupportedSource"
    ELSE IF Len(NonEmptyParts(s.path)) < 2 THEN "MalformedReference"
    ELSE "none"

(***************************************************************************)
(* Filesystem objects and trees.                                           *)
(***************************************************************************)
Absent == [type |-> "absent", tree |-> {}]
RegularFile == [type |-> "file", tree |-> {}]
Dir(t) == [type |-> "dir", tree |-> t]

DirEntry(p) == [path |-> p, kind |-> "dir", data |-> 0]
FileEntry(p, d) == [path |-> p, kind |-> "file", data |-> d]

\* the directories above an entry, which writing the entry creates
Ancestors(e) == {DirEntry(SubSeq(e.path, 1, k)) : k \in 1..(Len(e.path) - 1)}

AncestorClosure(entries) == entries \cup UNION {Ancestors(e) : e \in entries}

\* Path.exists / is_file / any(iterdir())
Exists(fs) == fs.type # "absent"
IsFile(fs) == fs.type = "file"
IsDir(fs) == fs.type = "dir"
NonEmpty(fs) == fs.tree # {}

(***************************************************************************)
(* Inputs: the command line, the filesystem before the command, and what   *)
(* the network can answer.                                                 *)
(***************************************************************************)
NoName == <<>>
NoRoot == "<none>"
NoBranch == "<none>"

Netlocs ==
    { GITHUB_COM,
      <<"G","i","t","H","u","b",".","C","O","M">>,
      <<"g","i","t","l","a","b",".","c","o","m">>,
      <<"n","o","t">> \o GITHUB_COM,
      GITHUB_COM \o <<".","e","v","i","l",".","i","o">> }

Alice == <<"a","l">>
Tools == <<"t">>

UrlPaths ==
    { <<>>,
      <<Alice>>,
      <<Alice, Tools>>,
      <<Alice, Tools \o DOT_GIT>>,
      <<Alice, <<>>, Tools, <<"x">>>> }

RemoteSources ==
    {[scheme |-> "https", netloc |-> n, path |-> <<Alice, Tools>>] : n \in Netlocs}
    \cup {[scheme |-> "https", netloc |-> GITHUB_COM, path |-> p] : p \in UrlPaths}
    \cup {[scheme |-> "http", netloc |-> GITHUB_COM, path |-> <<Alice, Tools \o DOT_GIT>>]}

LocalSources ==
    { [scheme |-> "", netloc |-> <<>>, path |-> <<<<"w">>, <<"p">>>>],
      [scheme |-> "ftp", netloc |-> GITHUB_COM, path |-> <<Alice, Tools>>] }

Sources == RemoteSources \cup LocalSources

DestArgs == {NoName, <<"o">>}

DestStates ==
    { Absent, RegularFile, Dir({}), Dir({FileEntry(<<"old">>, 9)}) }

SrcUniverse ==
    { DirEntry(<<".git">>), FileEntry(<<".git", "HEAD">>, 7), FileEntry(<<"f">>, 8) }

SrcStates ==
    {Absent, RegularFile}
    \cup {Dir(AncestorClosure(t)) : t \in {u \in SUBSET SrcUniverse : Cardinality(u) <= MaxSrcEntries}}

\* entries a snapshot archive may hold; R is the wrapper directory
R == "repo-main"

EntryUniverse ==
    { DirEntry(<<R>>),
      FileEntry(<<R, "a">>, 1),
      FileEntry(<<R, "sub", "b">>, 2),
      DirEntry(<<R, R>>),
      FileEntry(<<"S", "a">>, 3),
      FileEntry(<<"top">>, 4),
      FileEntry(<<"a">>, 5) }

Archives == {a \in SUBSET EntryUniverse : Cardinality(a) <= MaxEntries}

\* what http_get_bytes can produce: an exception, bytes that are no ZIP, a ZIP
DownloadResponses ==
    { [ok |-> FALSE, zip |-> FALSE, entries |-> {}],
      [ok |-> TRUE, zip |-> FALSE, entries |-> {}] }
    \cup {[ok |-> TRUE, zip |-> TRUE, entries |-> a] : a \in Archives}

NoData == [ok |-> FALSE, zip |-> FALSE, entries |-> {}]

\* what the metadata request can produce: an exception of urlopen/read/decode/
\* json.loads, or a JSON document; field is the value of "default_branch"
MetaFailures == {"URLError", "HTTPError", "JSONDecodeError", "socket.timeout", "UnicodeDecodeError"}
FieldValues == {"<missing>", "<null>", "", "main", "master", "dev"}

MetaResponses ==
    {[exc |-> x, type |-> "none", field |-> "<missing>"] : x \in MetaFailures}
    \cup {[exc |-> "none", type |-> "list", field |-> "<missing>"]}
    \cup {[exc |-> "none", type |-> "object", field |-> v] : v \in FieldValues}

NoMeta == [exc |-> "none", type |-> "none", field |-> "<missing>"]

(***************************************************************************)
(* The helpers of the clone routines.                                      *)
(***************************************************************************)
\* ensure_empty_dir / clone_local: the destination is refused
DestConflict_OnlyDirs(fs) == Exists(fs) /\ IsDir(fs) /\ NonEmpty(fs)

DestConflict(fs) == Exists(fs) /\ (IsFile(fs) \/ NonEmpty(fs))

\* http_get_json: the exception that leaves it ("none": it returns the JSON)
HttpGetJsonRaises(r) ==
    IF r.exc \in {"URLError", "HTTPError", "JSONDecodeError"} THEN "Exception"
    ELSE r.exc

\* the exception raised in the try block of github_default_branch:
\* http_get_json's, or the AttributeError of meta.get on a JSON non-object
TryBlockRaises(r) ==
    IF HttpGetJsonRaises(r) # "none" THEN HttpGetJsonRaises(r)
    ELSE IF r.type # "object" THEN "AttributeError"
    ELSE "none"

\* the classes `except Exception` catches
CaughtByExceptException_OnlyWrapped(x) == x = "Exception"

CaughtByExceptException(x) ==
    x \in {"Exception", "socket.timeout", "UnicodeDecodeError", "AttributeError"}

\* `if branch:` on the value of meta.get("default_branch")
Truthy(v) == v \notin {"<missing>", "<null>", ""}

\* github_default_branch: [raised, value]
github_default_branch(r) ==
    LET x == TryBlockRaises(r) IN
    IF x # "none"
    THEN IF CaughtByExceptException(x)
         THEN [raised |-> FALSE, value |-> "main"]
         ELSE [raised |-> TRUE, value |-> NoBranch]
    ELSE IF Truthy(r.field)
         THEN [raised |-> FALSE, value |-> r.field]
         ELSE [raised |-> FALSE, value |-> "main"]

\* clone_github, line 162
FallbackBranch_AlwaysMaster(b) == "master"

FallbackBranch(b) == IF b # "master" THEN "master" ELSE "main"

\* clone_github, line 166: the branch after the fallback download succeeded
BranchAfterFallback_Stale(b, fb) == b

BranchAfterFallback(b, fb) == fb

\* zf.extractall(tmpdir): every entry is written below tmpdir, with the
\* directories above it
ExtractAll(entries) == AncestorClosure(entries)

\* line 127: [p for p in tmpdir.iterdir() if p.is_dir()]
Roots_AnyEntry(tree) == {e.path[1] : e \in {x \in tree : Len(x.path) = 1}}

Roots(tree) ==
    {e.path[1] : e \in {x \in tree : Len(x.path) = 1 /\ x.kind = "dir"}}

\* line 128: the layout is refused
BadLayout_OnlyZero(roots) == Cardinality(roots) = 0

BadLayout(roots) == Cardinality(roots) # 1

\* line 133: root.iterdir()
Items(tree, rt) ==
    {e.path[2] : e \in {x \in tree : Len(x.path) = 2 /\ x.path[1] = rt}}

\* the entries of tmpdir/rt/item, item included
ItemEntries(tree, rt, item) ==
    {x \in tree : Len(x.path) >= 2 /\ x.path[1] = rt /\ x.path[2] = item}

\* lines 134-138: where shutil.move(item, dest / item.name) puts an entry
Target_KeepRoot(e) == e

Target(e) == [e EXCEPT !.path = Tail(e.path)]

\* the exit of `with tempfile.TemporaryDirectory()`
TmpExit_Leak(fs) == fs

TmpExit(fs) == Absent

\* the trees an interrupted write of `tree` can leave behind
Partial(tree) == {t \in SUBSET tree : AncestorClosure(t) = t}

(***************************************************************************)
(* The state after the command line is read and before main runs.          *)
(***************************************************************************)
Init ==
    /\ pc = "main"
    /\ source \in Sources
    /\ destArg \in DestArgs
    /\ dest = NoName
    /\ dest0 \in DestStates
    /\ destFS = dest0
    /\ srcFS \in IF is_url(source) THEN {Absent} ELSE SrcStates
    /\ owner = NoName
    /\ repo = NoName
    /\ branch = NoBranch
    /\ resolved = NoBranch
    /\ fallback = NoBranch
    /\ meta = NoMeta
    /\ fetched = <<>>
    /\ data = NoData
    /\ scratch = Absent
    /\ root = NoRoot
    /\ reported = NoBranch
    /\ result = "running"
    /\ destChecked = FALSE
    /\ netRequests = 0
    /\ destBefore = Absent
    /\ extracted = FALSE

\* raise SystemExit(...): the command ends with the error
Fail(err) ==
    /\ result' = err
    /\ pc' = "exit"

(***************************************************************************)
(* main, lines 229-235: route the source.                                  *)
(***************************************************************************)
Dispatch ==
    /\ pc = "main"
    /\ pc' = IF is_url(source) THEN "clone_github" ELSE "clone_local"
    /\ UNCHANGED <<destBefore, extracted, source, destArg, dest, dest0, destFS, srcFS, owner, repo,
                   branch, resolved, fallback, meta, fetched, data, scratch,
                   root, reported, result, destChecked, netRequests>>

(***************************************************************************)
(* clone_github, lines 147-151: parse the URL, default the destination.    *)
(***************************************************************************)
ParseRef_GuardFirst ==
    /\ pc = "clone_github"
    /\ destChecked' = TRUE
    /\ IF OwnerRepoError(source) # "none"
       THEN /\ Fail(OwnerRepoError(source))
            /\ destFS' = IF Exists(destFS) THEN destFS ELSE Dir({})
            /\ UNCHANGED <<owner, repo, dest>>
       ELSE /\ owner' = NonEmptyParts(source.path)[1]
            /\ repo' = StripGit(NonEmptyParts(source.path)[2])
            /\ dest' = IF destArg = NoName THEN repo' ELSE destArg
            /\ pc' = "ensure_empty_dir"
            /\ UNCHANGED <<result, destFS>>
    /\ UNCHANGED <<destBefore, extracted, source, destArg, dest0, srcFS, branch, resolved,
                   fallback, meta, fetched, data, scratch, root, reported,
                   netRequests>>

ParseRef ==
    /\ pc = "clone_github"
    /\ IF OwnerRepoError(source) # "none"
       THEN /\ Fail(OwnerRepoError(source))
            /\ UNCHANGED <<owner, repo, dest>>
       ELSE /\ owner' = NonEmptyParts(source.path)[1]
            /\ repo' = StripGit(NonEmptyParts(source.path)[2])
            /\ dest' = IF destArg = NoName THEN repo' ELSE destArg
            /\ pc' = "ensure_empty_dir"
            /\ UNCHANGED result
    /\ UNCHANGED <<destBefore, extracted, source, destArg, dest0, destFS, srcFS, branch, resolved,
                   fallback, meta, fetched, data, scratch, root, reported,
                   destChecked, netRequests>>

(***************************************************************************)
(* ensure_empty_dir, lines 38-49, called at line 154.                      *)
(***************************************************************************)
EnsureEmptyDir ==
    /\ pc = "ensure_empty_dir"
    /\ destChecked' = TRUE
    /\ IF Exists(destFS)
       THEN IF DestConflict(destFS)
            THEN Fail("DestinationConflict") /\ UNCHANGED destFS
            ELSE pc' = "default_branch" /\ UNCHANGED <<result, destFS>>
       ELSE \/ /\ destFS' = Dir({})
               /\ pc' = "default_branch"
               /\ UNCHANGED result
            \/ /\ Fail("IOFailure")
               /\ UNCHANGED destFS
    /\ UNCHANGED <<destBefore, extracted, source, destArg, dest, dest0, srcFS, owner, repo, branch,
                   resolved, fallback, meta, fetched, data, scratch, root,
                   reported, netRequests>>

(***************************************************************************)
(* github_default_branch, lines 97-107, called at line 156.  An exception  *)
(* that left it would reach the handler of line 247 ("Error: ...").        *)
(***************************************************************************)
ResolveBranch ==
    /\ pc = "default_branch"
    /\ \E r \in MetaResponses :
          /\ meta' = r
          /\ IF github_default_branch(r).raised
             THEN /\ Fail("Error")
                  /\ UNCHANGED <<branch, resolved>>
             ELSE /\ branch' = github_default_branch(r).value
                  /\ resolved' = branch'
                  /\ pc' = "download"
                  /\ UNCHANGED result
    /\ netRequests' = netRequests + 1
    /\ UNCHANGED <<destBefore, extracted, source, destArg, dest, dest0, destFS, srcFS, owner, repo,
                   fallback, fetched, data, scratch, root, reported,
                   destChecked>>

(***************************************************************************)
(* clone_github, lines 158-168: the download and its one retry.            *)
(***************************************************************************)
DownloadPrimary ==
    /\ pc = "download"
    /\ \E r \in DownloadResponses :
          /\ fetched' = Append(fetched, [branch |-> branch, resp |-> r])
          /\ IF r.ok
             THEN /\ data' = r
                  /\ pc' = "extract"
                  /\ UNCHANGED fallback
             ELSE /\ fallback' = FallbackBranch(branch)
                  /\ pc' = "download_fallback"
                  /\ UNCHANGED data
    /\ netRequests' = netRequests + 1
    /\ UNCHANGED <<destBefore, extracted, source, destArg, dest, dest0, destFS, srcFS, owner, repo,
                   branch, resolved, meta, scratch, root, reported, result,
                   destChecked>>

DownloadFallback ==
    /\ pc = "download_fallback"
    /\ \E r \in DownloadResponses :
          /\ fetched' = Append(fetched, [branch |-> fallback, resp |-> r])
          /\ IF r.ok
             THEN /\ data' = r
                  /\ branch' = BranchAfterFallback(branch, fallback)
                  /\ pc' = "extract"
                  /\ UNCHANGED result
             ELSE /\ Fail("DownloadFailure")
                  /\ UNCHANGED <<data, branch>>
    /\ netRequests' = netRequests + 1
    /\ UNCHANGED <<destBefore, extracted, source, destArg, dest, dest0, destFS, srcFS, owner, repo,
                   resolved, fallback, meta, scratch, root, reported,
                   destChecked>>

(***************************************************************************)
(* extract_zip_to, lines 117-142, called at line 170.                      *)
(***************************************************************************)
\* lines 120-121: open the archive, create the scratch directory
ExtractOpen ==
    /\ pc = "extract"
    /\ IF ~data.zip
       THEN Fail("CorruptArchive") /\ UNCHANGED scratch
       ELSE \/ /\ scratch' = Dir({})
               /\ pc' = "extractall"
               /\ UNCHANGED result
            \/ /\ Fail("IOFailure")
               /\ UNCHANGED scratch
    /\ destBefore' = destFS
    /\ UNCHANGED <<extracted, source, destArg, dest, dest0, destFS, srcFS,
                   owner, repo, branch, resolved, fallback, meta, fetched,
                   data, root, reported, destChecked, netRequests>>

\* line 124: zf.extractall(tmpdir), or an I/O error in the middle of it
ExtractAllStep ==
    /\ pc = "extractall"
    /\ \/ /\ scratch' = Dir(ExtractAll(data.entries))
          /\ extracted' = TRUE
          /\ pc' = "find_root"
          /\ UNCHANGED result
       \/ /\ scratch' = TmpExit(scratch)
          /\ Fail("IOFailure")
          /\ UNCHANGED extracted
    /\ UNCHANGED <<destBefore, source, destArg, dest, dest0, destFS, srcFS, owner, repo,
                   branch, resolved, fallback, meta, fetched, data, root,
                   reported, destChecked, netRequests>>

\* lines 127-131: the single top-level directory
FindRoot ==
    /\ pc = "find_root"
    /\ IF BadLayout(Roots(scratch.tree))
       THEN /\ scratch' = TmpExit(scratch)
            /\ Fail("UnexpectedLayout")
            /\ UNCHANGED root
       ELSE /\ root' \in Roots(scratch.tree)
            /\ pc' = "move"
            /\ UNCHANGED <<scratch, result>>
    /\ UNCHANGED <<destBefore, extracted, source, destArg, dest, dest0, destFS, srcFS, owner, repo,
                   branch, resolved, fallback, meta, fetched, data, reported,
                   destChecked, netRequests>>

\* lines 133-138: one turn of the loop, moving one child of the root, or an
\* I/O error in the middle of the move
MoveItem ==
    /\ pc = "move"
    /\ \E item \in Items(scratch.tree, root) :
          LET moved == ItemEntries(scratch.tree, root, item) IN
          \/ /\ destFS' = Dir(destFS.tree \cup {Target(e) : e \in moved})
             /\ scratch' = Dir(scratch.tree \ moved)
             /\ UNCHANGED <<pc, result>>
          \/ /\ \E part \in Partial({Target(e) : e \in moved}) :
                    destFS' = Dir(destFS.tree \cup part)
             /\ scratch' = TmpExit(scratch)
             /\ Fail("IOFailure")
    /\ UNCHANGED <<destBefore, extracted, source, destArg, dest, dest0, srcFS, owner, repo, branch,
                   resolved, fallback, meta, fetched, data, root, reported,
                   destChecked, netRequests>>

\* the loop is over: the scratch directory is left, extract_zip_to returns
MoveDone ==
    /\ pc = "move"
    /\ Items(scratch.tree, root) = {}
    /\ scratch' = TmpExit(scratch)
    /\ pc' = "report"
    /\ UNCHANGED <<destBefore, extracted, source, destArg, dest, dest0, destFS, srcFS, owner, repo,
                   branch, resolved, fallback, meta, fetched, data, root,
                   reported, result, destChecked, netRequests>>

\* line 171: the success message
Report ==
    /\ pc = "report"
    /\ reported' = branch
    /\ result' = "ok"
    /\ pc' = "exit"
    /\ UNCHANGED <<destBefore, extracted, source, destArg, dest, dest0, destFS, srcFS, owner, repo,
                   branch, resolved, fallback, meta, fetched, data, scratch,
                   root, destChecked, netRequests>>

(***************************************************************************)
(* clone_local, lines 174-200.                                             *)
(***************************************************************************)
\* lines 176-185: the source must be a directory
LocalSource ==
    /\ pc = "clone_local"
    /\ IF ~Exists(srcFS) THEN Fail("SourceNotFound") /\ UNCHANGED dest
       ELSE IF ~IsDir(srcFS) THEN Fail("SourceNotADirectory") /\ UNCHANGED dest
       ELSE /\ dest' = IF destArg = NoName
                       THEN source.path[Len(source.path)] ELSE destArg
            /\ pc' = "local_dest"
            /\ UNCHANGED result
    /\ UNCHANGED <<destBefore, extracted, source, destArg, dest0, destFS, srcFS, owner, repo, branch,
                   resolved, fallback, meta, fetched, data, scratch, root,
                   reported, destChecked, netRequests>>

\* lines 189-194: the destination must be absent or empty; an empty one is
\* removed for copytree
LocalDest ==
    /\ pc = "local_dest"
    /\ destChecked' = TRUE
    /\ IF Exists(destFS)
       THEN IF DestConflict(destFS)
            THEN Fail("DestinationConflict") /\ UNCHANGED destFS
            ELSE /\ destFS' = Absent
                 /\ pc' = "copytree"
                 /\ UNCHANGED result
       ELSE /\ pc' = "copytree"
            /\ UNCHANGED <<result, destFS>>
    /\ UNCHANGED <<destBefore, extracted, source, destArg, dest, dest0, srcFS, owner, repo, branch,
                   resolved, fallback, meta, fetched, data, scratch, root,
                   reported, netRequests>>

\* lines 196-200: shutil.copytree, or an error in the middle of it
CopyTree ==
    /\ pc = "copytree"
    /\ \/ /\ destFS' = Dir(srcFS.tree)
          /\ result' = "ok"
          /\ pc' = "exit"
       \/ /\ destFS' \in {Absent} \cup {Dir(t) : t \in Partial(srcFS.tree)}
          /\ Fail("IOFailure")
    /\ UNCHANGED <<destBefore, extracted, source, destArg, dest, dest0, srcFS, owner, repo, branch,
                   resolved, fallback, meta, fetched, data, scratch, root,
                   reported, destChecked, netRequests>>

Next ==
    \/ Dispatch
    \/ ParseRef
    \/ EnsureEmptyDir
    \/ ResolveBranch
    \/ DownloadPrimary
    \/ DownloadFallback
    \/ ExtractOpen
    \/ ExtractAllStep
    \/ FindRoot
    \/ MoveItem
    \/ MoveDone
    \/ Report
    \/ LocalSource
    \/ LocalDest
    \/ CopyTree

Spec == Init /\ [][Next]_vars

(***************************************************************************)
(* Vocabulary of the properties, defined on the inputs and the history.    *)
(***************************************************************************)
Remote == is_url(source)

\* the destination was a regular file or a non-empty directory
Blocked(fs) == IsFile(fs) \/ (IsDir(fs) /\ NonEmpty(fs))

SourceErrors ==
    {"UnsupportedSource", "MalformedReference", "SourceNotFound", "SourceNotADirectory"}

\* the error the source alone earns, "none" when the source is accepted
SourceVerdict ==
    IF Remote THEN OwnerRepoError(source)
    ELSE IF ~Exists(srcFS) THEN "SourceNotFound"
    ELSE IF ~IsDir(srcFS) THEN "SourceNotADirectory"
    ELSE "none"

\* the top-level directories an archive's entries make
TopDirs(entries) ==
    {e.path[1] : e \in {x \in entries : Len(x.path) >= 2 \/ x.kind = "dir"}}

\* the top-level regular files of an archive
TopFiles(entries) == {x \in entries : Len(x.path) = 1 /\ x.kind = "file"}

\* the tree below the top-level directories of an archive
RepoTree(entries) ==
    {[path |-> Tail(x.path), kind |-> x.kind, data |-> x.data] :
        x \in {y \in entries \cup UNION {Ancestors(e) : e \in entries} : Len(y.path) >= 2}}

\* the metadata lookup failed or carried no default-branch value
MetaFailed(r) == r.exc # "none" \/ r.type # "object" \/ r.field \in {"<missing>", "<null>", ""}

(***************************************************************************)
(* C1 as stated: when the destination exists as a non-empty directory or   *)
(* as a regular file, every clone attempt ends with DestinationConflict    *)
(* and the destination is as it was.                                       *)
(***************************************************************************)
C1_AnyCloneConflicts ==
    (pc = "exit" /\ Blocked(dest0))
        => (result = "DestinationConflict" /\ destFS = dest0)

(***************************************************************************)
(* C1 amended: when the destination exists as a non-empty directory or as  *)
(* a regular file, the clone never succeeds and never changes the          *)
(* destination; it ends with DestinationConflict when the source is        *)
(* accepted, and with the source's own error otherwise.                    *)
(***************************************************************************)
C1_BlockedDestination ==
    Blocked(dest0)
        => /\ destFS = dest0
           /\ result # "ok"
           /\ pc = "exit" =>
                 result = IF SourceVerdict = "none"
                          THEN "DestinationConflict" ELSE SourceVerdict

C1_Witness ==
    /\ pc = "exit"
    /\ IsFile(dest0)
    /\ Remote
    /\ result = "DestinationConflict"

(***************************************************************************)
(* C2: a remote clone that succeeds after the primary download failed      *)
(* reports the fallback branch and leaves in the destination the contents  *)
(* of the fallback archive; once the primary download succeeded no second  *)
(* download is made and the reported branch is the resolved one.           *)
(***************************************************************************)
C2_FallbackReported ==
    /\ (Len(fetched) >= 1 /\ fetched[1].resp.ok) => Len(fetched) = 1
    /\ (Remote /\ result = "ok") =>
          /\ Len(fetched) \in {1, 2}
          /\ Len(fetched) = 1 =>
                /\ fetched[1].branch = resolved
                /\ reported = resolved
          /\ Len(fetched) = 2 =>
                /\ ~fetched[1].resp.ok
                /\ fetched[2].resp.ok
                /\ fetched[2].branch = fallback
                /\ reported = fallback
                /\ reported # resolved
                /\ destFS = Dir(RepoTree(fetched[2].resp.entries))

C2_Witness ==
    /\ result = "ok"
    /\ Len(fetched) = 2
    /\ reported = "main"
    /\ destFS.tree # {}

(***************************************************************************)
(* C3: when the extracted archive has zero or several top-level            *)
(* directories, extract_zip_to ends with UnexpectedLayout and the          *)
(* destination is as it was when extract_zip_to was called.                *)
(***************************************************************************)
C3_BadLayoutLeavesDest ==
    (extracted /\ Cardinality(TopDirs(data.entries)) # 1)
        => /\ destFS = destBefore
           /\ \/ pc = "find_root"
              \/ pc = "exit" /\ result = "UnexpectedLayout"

C3_Witness ==
    /\ result = "UnexpectedLayout"
    /\ Cardinality(TopDirs(data.entries)) = 2
    /\ destFS = destBefore

(***************************************************************************)
(* C4 as stated: after a successful extraction of an archive with the      *)
(* single top-level directory R the destination tree is the tree below R   *)
(* and holds no directory named R.                                         *)
(***************************************************************************)
C4_NoRootNamedDir ==
    (Remote /\ result = "ok")
        => /\ destFS = Dir(RepoTree(data.entries))
           /\ \A e \in destFS.tree :
                 ~(e.kind = "dir" /\ e.path[Len(e.path)] = root)

(***************************************************************************)
(* C4 amended: after a successful extraction of an archive with the single *)
(* top-level directory R into the empty destination, the destination tree  *)
(* is the tree below R, and it holds a directory named R only where the    *)
(* archive holds one below R.                                              *)
(***************************************************************************)
C4_DestIsRepoTree ==
    (Remote /\ result = "ok")
        => /\ destBefore = Dir({})
           /\ TopDirs(data.entries) = {root}
           /\ destFS = Dir(RepoTree(data.entries))
           /\ \A e \in destFS.tree :
                 (e.kind = "dir" /\ e.path[Len(e.path)] = root)
                     => DirEntry(<<root>> \o e.path) \in ExtractAll(data.entries)

C4_Witness ==
    /\ Remote
    /\ result = "ok"
    /\ data.entries = {FileEntry(<<R, "a">>, 1), FileEntry(<<R, "sub", "b">>, 2)}
    /\ destFS.tree = {FileEntry(<<"a">>, 1), DirEntry(<<"sub">>),
                      FileEntry(<<"sub", "b">>, 2)}

(***************************************************************************)
(* C5: no invocation makes more than two download attempts; a second       *)
(* attempt is made exactly when the first failed, with "master" if the     *)
(* resolved branch is not "master" and "main" otherwise; when it fails too *)
(* the clone ends with DownloadFailure and nothing was extracted.          *)
(***************************************************************************)
C5_RetryOnce ==
    /\ Len(fetched) <= 2
    /\ netRequests <= 3
    /\ Len(fetched) >= 1 => fetched[1].branch = resolved
    /\ (Len(fetched) = 1 /\ ~fetched[1].resp.ok) => pc = "download_fallback"
    /\ Len(fetched) = 2 =>
          /\ ~fetched[1].resp.ok
          /\ fetched[2].branch = IF resolved # "master" THEN "master" ELSE "main"
          /\ ~fetched[2].resp.ok =>
                /\ pc = "exit"
                /\ result = "DownloadFailure"
                /\ ~extracted
                /\ scratch = Absent
                /\ destBefore = Absent

C5_Witness ==
    /\ Len(fetched) = 2
    /\ resolved = "master"
    /\ fetched[2].branch = "main"
    /\ result = "DownloadFailure"

(***************************************************************************)
(* C6: github_owner_repo accepts a URL only when its host, compared        *)
(* without regard to case, is github.com; a URL with any other host ends   *)
(* with UnsupportedSource.  (The netlocs of the model carry no user        *)
(* information and no port: the host is the whole netloc.)                 *)
(***************************************************************************)
C6_OnlyGithubHost ==
    (Remote /\ pc \notin {"main", "clone_github"} /\ Lower(source.netloc) # GITHUB_COM)
        => result = "UnsupportedSource"

(***************************************************************************)
(* C7: github_default_branch never lets an error out: when the metadata    *)
(* lookup fails or carries no default-branch value the resolved branch is  *)
(* "main", otherwise it is the value of the field, and in every case the   *)
(* clone goes on to the download.                                          *)
(***************************************************************************)
C7_BranchHintNeverFails ==
    /\ result # "Error"
    /\ meta # NoMeta =>
          /\ resolved = IF MetaFailed(meta) THEN "main" ELSE meta.field
          /\ pc = "download" \/ Len(fetched) >= 1

C7_Witness ==
    /\ meta.exc = "socket.timeout"
    /\ resolved = "main"
    /\ result = "ok"

(***************************************************************************)
(* C8: once extract_zip_to has ended, by success, by UnexpectedLayout or   *)
(* by an I/O error, the scratch directory it created is gone; it exists    *)
(* only during the call.                                                   *)
(***************************************************************************)
C8_ScratchRemoved ==
    Exists(scratch) => pc \in {"extractall", "find_root", "move"}

C8_Witness ==
    /\ pc = "exit"
    /\ result = "IOFailure"
    /\ root # NoRoot
    /\ destFS.tree # {}
    /\ scratch = Absent

(***************************************************************************)
(* C9: a clone that ends with UnsupportedSource, MalformedReference,       *)
(* SourceNotFound or SourceNotADirectory has not inspected or changed the  *)
(* destination and has issued no network request.                          *)
(***************************************************************************)
C9_SourceRejectionPure ==
    result \in SourceErrors
        => /\ destFS = dest0
           /\ ~destChecked
           /\ netRequests = 0
           /\ meta = NoMeta
           /\ fetched = <<>>

C9_Witness ==
    /\ result = "MalformedReference"
    /\ dest0 = Dir({})
    /\ destFS = Dir({})

(***************************************************************************)
(* C10: an archive whose top level holds one directory and regular files   *)
(* is not refused for its layout, and after the extraction the destination *)
(* holds the children of the directory and none of the top-level files.    *)
(***************************************************************************)
C10_TopFilesIgnored ==
    (extracted /\ Cardinality(TopDirs(data.entries)) = 1 /\ TopFiles(data.entries) # {})
        => /\ result # "UnexpectedLayout"
           /\ pc \in {"report", "exit"} /\ result \in {"running", "ok"} =>
                 /\ destFS = Dir(RepoTree(data.entries))
                 /\ TopFiles(data.entries) \cap destFS.tree = {}

C10_Witness ==
    /\ result = "ok"
    /\ FileEntry(<<"a">>, 5) \in data.entries
    /\ destFS.tree = {FileEntry(<<"a">>, 1)}

====
